---- MODULE Spec2Model ----
(***************************************************************************)
(* Model of create_table_of_contents/create_toc.py: class CreateTOC.       *)
(*                                                                         *)
(* CreateTOC.__init__ reads the outline of a PDF, flattens it into a list  *)
(* of bookmark records, renders a table of contents with FPDF (once, and   *)
(* a second time when the first render did not fit on one page) and        *)
(* merges the table of contents in front of the source document.           *)
(*                                                                         *)
(* Lengths are integers in units of 0.5 mm, so that level_indent (7.5 mm)  *)
(* is the integer 15.  Vertical positions are counted in text lines (all   *)
(* row styles have the same font size, hence the same line height).  The   *)
(* FPDF page is a scaled-down page: the layout code only reads toc.w, the  *)
(* margins, toc.c_margin and the measured string widths.                   *)
(***************************************************************************)
EXTENDS Integers, Sequences, FiniteSets, TLC

(***************************************************************************)
(* Bounds of the model.                                                    *)
(***************************************************************************)
MaxNodes == 3      \* outline entries (Destinations and nested lists) in the source PDF
MaxNest  == 2      \* deepest nesting level of the outline
MaxSkip  == 2      \* largest skip_bookmarks argument
MaxDotW  == 2      \* largest width of the fill character "."

(***************************************************************************)
(* The page made by FPDF() / add_page(), and the font metrics.             *)
(***************************************************************************)
PageW     == 60    \* toc.w
LMargin   == 4     \* toc.l_margin
RMargin   == 4     \* toc.r_margin
CMargin   == 1     \* toc.c_margin
PageLines == 2     \* text lines above the page-break trigger
TitleLines == 1    \* lines taken by the "Table of Contents" heading and its b_margin
CharW     == 5     \* get_string_width of one title character
DigitW    == 5     \* get_string_width of one digit of the page label
epw       == PageW - LMargin - RMargin   \* toc.epw

level_indent == 15 \* 7.5 mm: indentation level per depth

(***************************************************************************)
(* The Destinations of the source PDF: title, and the page number that     *)
(* reader.get_destination_page_number resolves the Destination to.         *)
(***************************************************************************)
Destinations ==
  { [kind |-> "Destination", title |-> "Intro",        page |-> 0],
    [kind |-> "Destination", title |-> "Glossary",     page |-> 7],
    [kind |-> "Destination", title |-> "Reference",    page |-> 3],
    [kind |-> "Destination", title |-> "Bibliography", page |-> 7] }

\* An outline is a list whose items are Destinations or nested outlines.
RECURSIVE Outlines(_, _)
OutlineItems(k, d) ==
  (IF k = 1 THEN Destinations ELSE {})
    \cup (IF d > 0
          THEN { [kind |-> "list", items |-> f] : f \in Outlines(k - 1, d - 1) }
          ELSE {})

Outlines(n, d) ==
  IF n = 0 THEN { <<>> }
  ELSE { <<>> } \cup
       UNION { { <<it>> \o rest : it \in OutlineItems(k, d),
                                  rest \in Outlines(n - k, d) } : k \in 1..n }

VARIABLES
  outline,          \* self.reader.outline
  skip_bookmarks,   \* the skip_bookmarks argument
  dot_w,            \* get_string_width(".") in the row style
  TOC_TEXT_STYLES,  \* the class attribute
  pc,               \* position of __init__
  call_no,          \* which create_toc call is running (0: none yet)
  bookmarks,        \* self.bookmarks
  toc_pages,        \* self.toc_pages
  number_of_pages,  \* the local of __init__ (0: not assigned yet)
  toc,              \* the FPDF document create_toc is building
  next_item,        \* position of the loop of create_toc in self.bookmarks
  toc_pdf,          \* the TOC document __init__ holds
  writer,           \* the PdfWriter of merge_pdfs
  history           \* call counters (create_toc, toc_pages assignments, merge_pdfs)

vars == << outline, skip_bookmarks, dot_w, TOC_TEXT_STYLES, pc, call_no, bookmarks,
           toc_pages, number_of_pages, toc, next_item, toc_pdf, writer, history >>

inputs == << outline, skip_bookmarks, dot_w >>

(***************************************************************************)
(* TOC_TEXT_STYLES                                                         *)
(***************************************************************************)
StyleTable ==
  [ title   |-> [font_family |-> "Helvetica", font_size_pt |-> 18,
                 font_style |-> "B", color |-> "#0000ff", b_margin |-> 18],
    depth_0 |-> [font_family |-> "Helvetica", font_size_pt |-> 12,
                 font_style |-> "B", color |-> "", b_margin |-> 0],
    default |-> [font_family |-> "Helvetica", font_size_pt |-> 12,
                 font_style |-> "", color |-> "", b_margin |-> 0] ]

\* get_text_style: the style for a bookmark depth
get_text_style_default(styles, depth) == styles["default"]

get_text_style(styles, depth) ==
  LET key == "depth_" \o ToString(depth)
  IN  IF key \in DOMAIN styles THEN styles[key] ELSE styles["default"]

(***************************************************************************)
(* extract_bookmarks: recursive flattening of the outline                  *)
(***************************************************************************)
RECURSIVE extract_bookmarks(_, _)
RECURSIVE extract_bookmarks_flat(_, _)
extract_bookmarks_flat(outlines, depth) ==
  IF outlines = <<>> THEN <<>>
  ELSE LET item == Head(outlines)
           here == IF item.kind = "list"
                   THEN extract_bookmarks_flat(item.items, depth)
                   ELSE << [depth |-> depth, title |-> item.title, page |-> item.page] >>
       IN  here \o extract_bookmarks_flat(Tail(outlines), depth)

extract_bookmarks(outlines, depth) ==
  IF outlines = <<>> THEN <<>>
  ELSE LET item == Head(outlines)
           here == IF item.kind = "list"
                   THEN extract_bookmarks(item.items, depth + 1)
                   ELSE IF item.kind = "Destination"
                        THEN << [depth |-> depth, title |-> item.title,
                                 page |-> item.page] >>
                        ELSE <<>>
       IN  here \o extract_bookmarks(Tail(outlines), depth)

\* bookmarks[skip:]
SliceFrom(s, skip) ==
  IF skip >= Len(s) THEN <<>> ELSE SubSeq(s, skip + 1, Len(s))

\* list.sort(key=page): a stable sort by ascending page
RECURSIVE InsertByPage(_, _)
InsertByPage(sorted, b) ==
  IF sorted = <<>> THEN << b >>
  ELSE IF Head(sorted).page <= b.page
       THEN << Head(sorted) >> \o InsertByPage(Tail(sorted), b)
       ELSE << b >> \o sorted

RECURSIVE SortByPageFrom(_, _, _)
SortByPageFrom(s, i, acc) ==
  IF i > Len(s) THEN acc ELSE SortByPageFrom(s, i + 1, InsertByPage(acc, s[i]))

SortByPageNone(s) == s

SortByPage(s) == SortByPageFrom(s, 1, <<>>)

(***************************************************************************)
(* The FPDF document: the page being written and the cursor's line on it.  *)
(***************************************************************************)
\* toc = FPDF(); toc.add_page(); the heading cell inside use_text_style(title)
NewToc == [page |-> 1, y |-> TitleLines, rows |-> <<>>]

\* a cell is about to print a line: automatic page break when it does not fit
PlaceLine(doc) ==
  IF doc.y + 1 > PageLines THEN [doc EXCEPT !.page = @ + 1, !.y = 0] ELSE doc

\* the cursor moves down one line (ln(), or new_y=YPos.NEXT)
NextLine(doc) == [doc EXCEPT !.y = @ + 1]

\* multi_cell printing n wrapped lines with new_y=YPos.LAST
RECURSIVE PlaceLines(_, _)
PlaceLines(doc, n) ==
  IF n <= 1 THEN PlaceLine(doc) ELSE PlaceLine(NextLine(PlaceLines(doc, n - 1)))

\* get_string_width of a string of fill characters
FillWidth(s, dotw) == Len(s) * dotw

\* str(item["page"] + self.toc_pages + 1)
item_page_number_initial(page, k) == ToString(page + 1 + 1)

item_page_number(page, k) == ToString(page + k + 1)

\* f'dest{item["page"]}' in render_toc_item
link_name_shifted(page) == "dest" \o ToString(page + 1)

link_name(page) == "dest" \o ToString(page)

\* f"dest{bookmark_page}" in merge_pdfs
destination_name(page) == "dest" \o ToString(page)

\* remaining space on the line of the title's end
in_between_space_first(current_x, page_label_length, clearance_margin) ==
  PageW - current_x - page_label_length - clearance_margin - RMargin

\* remaining space after the forced line break
in_between_space_retry_no_label(current_x, page_label_length, clearance_margin) ==
  PageW - current_x - RMargin

in_between_space_retry(current_x, page_label_length, clearance_margin) ==
  PageW - current_x - page_label_length - RMargin

\* the while loop that appends "." to in_between
RECURSIVE fill_loop(_, _, _, _)
RECURSIVE fill_loop_leq(_, _, _, _)
fill_loop_leq(in_between, in_between_space, clearance_margin, dotw) ==
  IF FillWidth(in_between, dotw) + clearance_margin <= in_between_space
  THEN fill_loop_leq(in_between \o << "." >>, in_between_space, clearance_margin, dotw)
  ELSE in_between

fill_loop(in_between, in_between_space, clearance_margin, dotw) ==
  IF FillWidth(in_between, dotw) + clearance_margin < in_between_space
  THEN fill_loop(in_between \o << "." >>, in_between_space, clearance_margin, dotw)
  ELSE in_between

\* if len(in_between) > 1
fill_is_rendered_nonempty(in_between) == Len(in_between) > 0

fill_is_rendered(in_between) == Len(in_between) > 1

\* in_between[:-1]
drop_last(s) == IF Len(s) = 0 THEN s ELSE SubSeq(s, 1, Len(s) - 1)

(***************************************************************************)
(* render_toc_item: one row of the table of contents.  The result is the   *)
(* document after the row, with the row appended to its rows.              *)
(***************************************************************************)
render_toc_item(doc, item, k, styles, dotw) ==
  LET depth            == item.depth
      label            == item_page_number(item.page, k)
      text_style       == get_text_style(styles, depth)
      name             == link_name(item.page)
      indent           == depth * level_indent
      \* the title: multi_cell(w = epw - indent) from x = l_margin + indent
      title_x          == LMargin + indent
      per_line         == IF (epw - indent - 2 * CMargin) \div CharW < 1 THEN 1
                          ELSE (epw - indent - 2 * CMargin) \div CharW
      n_chars          == Len(item.title)
      n_lines          == IF n_chars = 0 THEN 1 ELSE (n_chars + per_line - 1) \div per_line
      last_chars       == n_chars - (n_lines - 1) * per_line
      after_title      == PlaceLines(doc, n_lines)
      title_end_x      == title_x + CMargin + last_chars * CharW
      \* fill in-between with dots
      clearance_margin == CMargin * 2
      page_label_length == Len(label) * DigitW
      first_space      == in_between_space_first(title_end_x, page_label_length,
                                                 clearance_margin)
      forced           == first_space < 0
      after_break      == IF forced THEN NextLine(after_title) ELSE after_title
      current_x        == IF forced THEN LMargin + indent ELSE title_end_x
      in_between_space == IF forced
                          THEN in_between_space_retry(current_x, page_label_length,
                                                      clearance_margin)
                          ELSE first_space
      in_between       == IF in_between_space > 0
                          THEN fill_loop(<<>>, in_between_space, clearance_margin, dotw)
                          ELSE <<>>
      rendered         == in_between_space > 0 /\ fill_is_rendered(in_between)
      fill             == IF rendered THEN drop_last(in_between) ELSE <<>>
      after_fill       == IF rendered THEN PlaceLine(after_break) ELSE after_break
      \* the page number: multi_cell(align=R), then the cursor goes to the next line
      at_label         == PlaceLine(after_fill)
      row == [ depth |-> depth, title |-> item.title, page |-> item.page,
               style |-> text_style,
               title_link |-> "#" \o name,
               title_x |-> title_x, title_lines |-> n_lines,
               title_page |-> after_title.page, title_line |-> after_title.y,
               first_space |-> first_space, forced |-> forced,
               current_x |-> current_x,
               in_between_space |-> in_between_space,
               in_between |-> in_between,
               fill_rendered |-> rendered, fill |-> fill,
               fill_link |-> IF rendered THEN "#" \o name ELSE "",
               fill_from |-> current_x + CMargin,
               fill_to |-> current_x + CMargin + FillWidth(fill, dotw),
               label |-> label, label_link |-> "#" \o name,
               label_from |-> PageW - RMargin - CMargin - page_label_length,
               label_to |-> PageW - RMargin - CMargin,
               label_page |-> at_label.page, label_line |-> at_label.y,
               fill_page |-> after_fill.page, fill_line |-> after_fill.y ]
  IN  [ page |-> at_label.page, y |-> at_label.y + 1, rows |-> Append(doc.rows, row) ]

(***************************************************************************)
(* merge_pdfs: the named destinations added for a list of bookmarks        *)
(***************************************************************************)
destination_page(bookmark_page, k) == bookmark_page + k

NamedDestinations(bms, k) ==
  { << destination_name(bms[j].page), destination_page(bms[j].page, k) >> :
       j \in 1..Len(bms) }

\* if number_of_pages != self.toc_pages
page_count_differs_always(n, k) == TRUE

page_count_differs(n, k) == n # k

NoDocument == [page |-> 0, y |-> 0, rows |-> <<>>]
NoPdf      == [pages |-> 0, rows |-> <<>>, made_by |-> 0]
NoWriter   == [written |-> FALSE, toc_page_count |-> 0, toc_rows |-> <<>>,
               named_destinations |-> {}, order |-> <<>>]

(***************************************************************************)
(* The state after the arguments are bound, before __init__ runs.          *)
(***************************************************************************)
Init ==
  /\ outline \in Outlines(MaxNodes, MaxNest)
  /\ skip_bookmarks \in 0..MaxSkip
  /\ dot_w \in 1..MaxDotW
  /\ TOC_TEXT_STYLES = StyleTable
  /\ pc = "start"
  /\ call_no = 0
  /\ bookmarks = <<>>
  /\ toc_pages = 0
  /\ number_of_pages = 0
  /\ toc = NoDocument
  /\ next_item = 0
  /\ toc_pdf = NoPdf
  /\ writer = NoWriter
  /\ history = [create_toc |-> 0, assigned |-> 0, merge_pdfs |-> 0,
                rendered_with |-> {}]

\* __init__, lines 62-73: flatten, skip, sort, assume one TOC page
Construct ==
  /\ pc = "start"
  /\ bookmarks' = SortByPage(SliceFrom(extract_bookmarks(outline, 0), skip_bookmarks))
  /\ toc_pages' = 1
  /\ pc' = "create_toc"
  /\ UNCHANGED << inputs, TOC_TEXT_STYLES, call_no, number_of_pages, toc, next_item,
                  toc_pdf, writer, history >>

\* create_toc, up to the loop: a new document with the heading
CreateTocBegin ==
  /\ pc = "create_toc"
  /\ call_no' = call_no + 1
  /\ toc' = NewToc
  /\ next_item' = 1
  /\ pc' = "rows"
  /\ history' = [history EXCEPT !.create_toc = @ + 1]
  /\ UNCHANGED << inputs, TOC_TEXT_STYLES, bookmarks, toc_pages, number_of_pages,
                  toc_pdf, writer >>

\* one iteration of the loop of create_toc: render_toc_item(toc, bookmark)
RenderTocItem ==
  /\ pc = "rows"
  /\ next_item <= Len(bookmarks)
  /\ toc' = render_toc_item(toc, bookmarks[next_item], toc_pages, TOC_TEXT_STYLES, dot_w)
  /\ next_item' = next_item + 1
  /\ history' = [history EXCEPT !.rendered_with = @ \cup { << call_no, toc_pages >> }]
  /\ UNCHANGED << inputs, TOC_TEXT_STYLES, pc, call_no, bookmarks, toc_pages,
                  number_of_pages, toc_pdf, writer >>

\* the end of the first create_toc call: toc_pdf, number_of_pages = self.create_toc()
CreateTocReturnFirst ==
  /\ pc = "rows"
  /\ next_item > Len(bookmarks)
  /\ call_no = 1
  /\ toc_pdf' = [pages |-> toc.page, rows |-> toc.rows, made_by |-> call_no]
  /\ number_of_pages' = toc.page
  /\ pc' = "compare"
  /\ UNCHANGED << inputs, TOC_TEXT_STYLES, call_no, bookmarks, toc_pages, toc,
                  next_item, writer, history >>

\* if number_of_pages != self.toc_pages: self.toc_pages = number_of_pages
Mismatch ==
  /\ pc = "compare"
  /\ page_count_differs(number_of_pages, toc_pages)
  /\ toc_pages' = number_of_pages
  /\ pc' = "create_toc"
  /\ history' = [history EXCEPT !.assigned = @ + 1]
  /\ UNCHANGED << inputs, TOC_TEXT_STYLES, call_no, bookmarks, number_of_pages, toc,
                  next_item, toc_pdf, writer >>

\* the page count is the assumed one: nothing to redo
Match ==
  /\ pc = "compare"
  /\ ~ page_count_differs(number_of_pages, toc_pages)
  /\ pc' = "merge"
  /\ UNCHANGED << inputs, TOC_TEXT_STYLES, call_no, bookmarks, toc_pages,
                  number_of_pages, toc, next_item, toc_pdf, writer, history >>

\* the end of the second create_toc call: toc_pdf, _ = self.create_toc()
CreateTocReturnSecond ==
  /\ pc = "rows"
  /\ next_item > Len(bookmarks)
  /\ call_no > 1
  /\ toc_pdf' = [pages |-> toc.page, rows |-> toc.rows, made_by |-> call_no]
  /\ pc' = "merge"
  /\ UNCHANGED << inputs, TOC_TEXT_STYLES, call_no, bookmarks, toc_pages,
                  number_of_pages, toc, next_item, writer, history >>

\* merge_pdfs(toc_pdf, destination_pdf)
MergePdfs ==
  /\ pc = "merge"
  /\ writer' = [ written |-> TRUE,
                 toc_page_count |-> toc_pdf.pages,
                 toc_rows |-> toc_pdf.rows,
                 named_destinations |-> NamedDestinations(bookmarks, toc_pages),
                 order |-> bookmarks ]
  /\ pc' = "done"
  /\ history' = [history EXCEPT !.merge_pdfs = @ + 1]
  /\ UNCHANGED << inputs, TOC_TEXT_STYLES, call_no, bookmarks, toc_pages,
                  number_of_pages, toc, next_item, toc_pdf >>

Next ==
  \/ Construct
  \/ CreateTocBegin
  \/ RenderTocItem
  \/ CreateTocReturnFirst
  \/ Mismatch
  \/ Match
  \/ CreateTocReturnSecond
  \/ MergePdfs

Spec == Init /\ [][Next]_vars

(***************************************************************************)
(* Properties                                                              *)
(***************************************************************************)
\* the rows of every document in the state: the one being built, the one
\* __init__ holds and the one that was merged
AllRows ==
  { toc.rows[j] : j \in 1..Len(toc.rows) }
    \cup { toc_pdf.rows[j] : j \in 1..Len(toc_pdf.rows) }
    \cup { writer.toc_rows[j] : j \in 1..Len(writer.toc_rows) }

Clearance == 2 * CMargin

\* C1: in the merged output every named destination 'dest<page>' has the
\* zero-based index page + (number of TOC pages actually prepended).
C1_DestinationsFollowPrependedPages ==
  pc = "done" =>
    \A j \in 1..Len(bookmarks) :
      \A d \in writer.named_destinations :
        d[1] = "dest" \o ToString(bookmarks[j].page)
          => d[2] = bookmarks[j].page + writer.toc_page_count

\* C2: when the first create_toc reports k # 1, the merged TOC is the one made
\* by the second call, run with toc_pages = k, and every row of it is
\* labelled page + k + 1, none page + 1 + 1.
C2_MergedTocUsesCorrectedCount ==
  (pc \in {"merge", "done"} /\ number_of_pages # 1) =>
    /\ toc_pdf.made_by = 2
    /\ << 2, number_of_pages >> \in history.rendered_with \/ bookmarks = <<>>
    /\ \A c \in history.rendered_with : c[1] = 2 => c[2] = number_of_pages
    /\ Len(toc_pdf.rows) = Len(bookmarks)
    /\ \A j \in 1..Len(toc_pdf.rows) :
         /\ toc_pdf.rows[j].label = ToString(bookmarks[j].page + number_of_pages + 1)
         /\ toc_pdf.rows[j].label # ToString(bookmarks[j].page + 1 + 1)
    /\ (pc = "done" => writer.toc_rows = toc_pdf.rows)

C2_Witness ==
  /\ pc = "done"
  /\ number_of_pages = 2
  /\ Len(writer.toc_rows) >= 2
  /\ \E j \in 1..Len(writer.toc_rows) : writer.toc_rows[j].label = "10"

\* The Destinations of an outline by position: a path is the sequence of list
\* indexes that leads to an entry.
RECURSIVE EntryAt(_, _)
EntryAt(outlines, path) ==
  IF Head(path) > Len(outlines) THEN [kind |-> "none"]
  ELSE IF Len(path) = 1 THEN outlines[Head(path)]
  ELSE IF outlines[Head(path)].kind = "list"
       THEN EntryAt(outlines[Head(path)].items, Tail(path))
       ELSE [kind |-> "none"]

Paths == UNION { [1..n -> 1..MaxNodes] : n \in 1..(MaxNest + 1) }

DestinationPaths == { p \in Paths : EntryAt(outline, p).kind = "Destination" }

\* p comes before q in document order (no Destination lies under another)
Before(p, q) ==
  \E i \in 1..Len(p) :
    /\ i <= Len(q)
    /\ \A j \in 1..(i - 1) : p[j] = q[j]
    /\ p[i] < q[i]

Rank(p) == 1 + Cardinality({ q \in DestinationPaths : Before(q, p) })

C4_GreedyFillFit ==
  \A r \in AllRows :
    r.fill_rendered =>
      /\ r.fill = drop_last(r.in_between)
      /\ Len(r.fill) * dot_w + Clearance < r.in_between_space
      /\ ~ ((Len(r.fill) + 1) * dot_w + Clearance < r.in_between_space)

C4_Witness ==
  /\ \E r \in AllRows : r.fill_rendered /\ r.forced /\ r.in_between_space > 0
  /\ \E r \in AllRows : r.fill_rendered /\ ~ r.forced /\ Len(r.fill) > 2

\* C5: when the space left after the title is < 0 the row breaks the line,
\* restarts at l_margin + depth * level_indent, recomputes the space as
\* w - x - page_label_width - r_margin, renders no fill of negative width, and
\* the fill and the right-aligned page label do not overlap.
C5_ForcedLineBreak ==
  \A r \in AllRows :
    /\ r.forced <=> r.first_space < 0
    /\ r.forced =>
         /\ r.current_x = LMargin + r.depth * level_indent
         /\ r.in_between_space
              = PageW - r.current_x - Len(r.label) * DigitW - RMargin
         /\ \/ r.label_page > r.title_page
            \/ r.label_page = r.title_page /\ r.label_line > r.title_line
         /\ r.fill_to >= r.fill_from
         /\ r.fill_rendered =>
              /\ r.in_between_space > 0
              /\ PageW - r.current_x - RMargin > 0
              /\ r.fill_from >= r.current_x
              /\ r.fill_to <= r.label_from
              /\ r.label_to = PageW - RMargin - CMargin
              /\ r.fill_page = r.label_page /\ r.fill_line = r.label_line

C5_Witness ==
  \E r \in AllRows :
    /\ r.first_space < 0
    /\ r.forced
    /\ r.fill_rendered
    /\ r.depth = 1

\* C6 as stated: a dot leader is rendered only if the trimmed string is
\* longer than one character.
C6_NoOneCharacterFill ==
  \A r \in AllRows :
    /\ r.fill_rendered => r.fill = drop_last(r.in_between)
    /\ r.fill_rendered => Len(r.fill) > 1

\* C6 amended: the last character of the buffer is dropped, and the fill is
\* rendered exactly when the untrimmed buffer is longer than one character,
\* so a rendered dot leader has at least one character.
C6_FillRenderedIffBufferOverOne ==
  \A r \in AllRows :
    /\ r.fill_rendered <=> (r.in_between_space > 0 /\ Len(r.in_between) > 1)
    /\ r.fill_rendered =>
         /\ Len(r.fill) = Len(r.in_between) - 1
         /\ r.fill = SubSeq(r.in_between, 1, Len(r.in_between) - 1)
         /\ Len(r.fill) >= 1
    /\ ~ r.fill_rendered => r.fill = <<>>

C6_Witness ==
  \E r \in AllRows : r.fill_rendered /\ Len(r.in_between) = 2 /\ r.fill = << "." >>

NonDecreasingByPage(rows) ==
  \A j \in 1..Len(rows) : \A m \in j..Len(rows) : rows[j].page <= rows[m].page

RowIsFor(r, b) == r.page = b.page /\ r.title = b.title /\ r.depth = b.depth

\* C7: the bookmarks are sorted by ascending page before a row is rendered,
\* every render makes one row per bookmark in that order, and merge_pdfs
\* iterates the same list.
C7_RowsInPageOrder ==
  /\ pc # "start" => NonDecreasingByPage(bookmarks)
  /\ pc = "rows" => Len(toc.rows) = next_item - 1
  /\ \A j \in 1..Len(toc.rows) : j <= Len(bookmarks) /\ RowIsFor(toc.rows[j], bookmarks[j])
  /\ NonDecreasingByPage(toc.rows)
  /\ NonDecreasingByPage(toc_pdf.rows)
  /\ pc \in {"compare", "merge", "done"} =>
       /\ Len(toc_pdf.rows) = Len(bookmarks)
       /\ \A j \in 1..Len(bookmarks) : RowIsFor(toc_pdf.rows[j], bookmarks[j])
  /\ pc = "done" =>
       /\ writer.order = bookmarks
       /\ NonDecreasingByPage(writer.order)
       /\ Len(writer.toc_rows) = Len(writer.order)
       /\ \A j \in 1..Len(writer.order) : RowIsFor(writer.toc_rows[j], writer.order[j])

C7_Witness ==
  LET flat == extract_bookmarks(outline, 0)
  IN  /\ pc = "done"
      /\ skip_bookmarks = 0
      /\ Len(flat) = 3
      /\ flat[1].page > flat[2].page
      /\ flat[2].page > flat[3].page
      /\ history.create_toc = 2
      /\ Len(writer.toc_rows) = 3

\* C8: a row's style is the one stored under 'depth_<depth>' when the table
\* has that key and the 'default' one otherwise, never the 'title' one, and
\* the style table is never changed.
C8_StyleLookup ==
  /\ TOC_TEXT_STYLES = StyleTable
  /\ \A r \in AllRows :
       LET key == "depth_" \o ToString(r.depth)
       IN  /\ key \in DOMAIN TOC_TEXT_STYLES => r.style = TOC_TEXT_STYLES[key]
           /\ key \notin DOMAIN TOC_TEXT_STYLES => r.style = TOC_TEXT_STYLES["default"]
           /\ r.style # TOC_TEXT_STYLES["title"]

C8_Witness ==
  /\ pc = "done"
  /\ \E r \in AllRows : r.depth = 0 /\ r.style.font_style = "B"
  /\ \E r \in AllRows : r.depth = 1 /\ r.style.font_style = ""

\* C9: create_toc runs once when the first render reports 1 page and twice
\* otherwise; toc_pages is 1 during the first render and is assigned at most
\* once afterwards, to the first render's count, before the second render;
\* merge_pdfs runs once, after the last render, whatever the second render's
\* page count is.
C9_RetryOnce ==
  /\ history.create_toc <= 2
  /\ history.create_toc = call_no
  /\ history.assigned <= 1
  /\ \A c \in history.rendered_with :
       /\ c[1] = 1 => c[2] = 1
       /\ c[1] = 2 => c[2] = number_of_pages /\ history.assigned = 1
  /\ (call_no = 1 /\ pc = "rows") => toc_pages = 1
  /\ (pc # "start" /\ history.assigned = 0) => toc_pages = 1
  /\ history.assigned = 1 =>
       /\ toc_pages = number_of_pages
       /\ number_of_pages # 1
       /\ pc = "create_toc" => call_no = 1
  /\ call_no = 2 => history.assigned = 1
  /\ pc \in {"merge", "done"} =>
       /\ history.create_toc = IF number_of_pages = 1 THEN 1 ELSE 2
       /\ toc_pdf.made_by = history.create_toc
  /\ history.merge_pdfs = IF pc = "done" THEN 1 ELSE 0
  /\ writer.written <=> pc = "done"

C9_Witness ==
  /\ pc = "done"
  /\ history.create_toc = 2
  /\ history.merge_pdfs = 1
  /\ toc_pages = 2
  /\ toc_pdf.pages = 3

\* C10: the three spans of a row link to 'dest<page>', merge_pdfs registers
\* that name with index page + toc_pages, the printed label is that index
\* + 1, and no destination name is bound to two different pages.
C10_LabelLinkAgreement ==
  pc = "done" =>
    /\ \A j \in 1..Len(writer.toc_rows) :
         LET r    == writer.toc_rows[j]
             name == "dest" \o ToString(r.page)
         IN  /\ r.title_link = "#" \o name
             /\ r.label_link = "#" \o name
             /\ r.fill_rendered => r.fill_link = "#" \o name
             /\ << name, r.page + toc_pages >> \in writer.named_destinations
             /\ r.label = ToString((r.page + toc_pages) + 1)
    /\ \A a \in writer.named_destinations : \A b \in writer.named_destinations :
         a[1] = b[1] => a[2] = b[2]
    /\ Len(writer.toc_rows) = Len(bookmarks)

C10_Witness ==
  /\ pc = "done"
  /\ \E j \in 1..Len(writer.toc_rows) : \E m \in 1..Len(writer.toc_rows) :
       /\ j # m
       /\ writer.toc_rows[j].page = writer.toc_rows[m].page
       /\ writer.toc_rows[j].title # writer.toc_rows[m].title
       /\ writer.toc_rows[j].fill_rendered
  /\ Cardinality(writer.named_destinations) = 1

====
